---------------------------- MODULE Spec2Model ----------------------------
(***************************************************************************)
(* Model of the mindsdb-cli `query` command (src/cmd/query.go) and of the  *)
(* MindsDB client it talks through (src/unnamed/part_000, package          *)
(* mindsdb).                                                               *)
(*                                                                         *)
(* Strings are sequences of one-character strings, so that TrimSpace,      *)
(* HasPrefix, Atoi and len() are computed the way the Go code computes     *)
(* them.  All characters of the model are ASCII, so len() (bytes) and the  *)
(* number of characters agree.                                             *)
(***************************************************************************)
EXTENDS Integers, Sequences, FiniteSets, TLC

VARIABLES
    pc,               \* position of the command: "start", "run", "prompt", "done"
    sql,              \* Run's local sql: the one-shot query text, <<>> = interactive
    queryEmbedded,    \* --embedded
    queryHost,        \* --host
    queryUser,        \* --user
    queryPass,        \* --pass
    queryFormat,      \* --format / .format
    queryMaxWidth,    \* --max-width
    queryCompact,     \* --compact / .compact
    queryVertical,    \* --vertical / .vertical
    queryLimit,       \* --limit / .limit
    queryForceTable,  \* --force-table
    client,           \* the *MindsDBClient returned by connectToMindsDB
    multiLineQuery,   \* startInteractiveMode: the strings.Builder
    inMultiLine,      \* startInteractiveMode: the flag
    line,             \* startInteractiveMode: the last line read (raw scanner text)
    columns,          \* executeAndDisplayQuery: rows.Columns() of the last query
    allRows,          \* executeAndDisplayQuery: the materialized grid of the last query
    out,              \* what the last step printed
    cellText,         \* truncateOrWrapText: the text handed to the first call
    cellWidth,        \* truncateOrWrapText: the width of the calls
    wrapped,          \* truncateOrWrapText: the results of the successive calls
    containers,       \* docker: the containers named mindsdb-cli-embedded
    nextID,           \* docker: the number of the next container it creates
    calls,            \* how many times StartEmbeddedMindsDB was called
    call              \* StartEmbeddedMindsDB: the locals and the result of the call

vars == <<pc, sql, queryEmbedded, queryHost, queryUser, queryPass, queryFormat,
          queryMaxWidth, queryCompact, queryVertical, queryLimit, queryForceTable,
          client, multiLineQuery, inMultiLine, line, columns, allRows, out,
          cellText, cellWidth, wrapped, containers, nextID, calls, call>>

flagVars == <<queryEmbedded, queryHost, queryUser, queryPass, queryMaxWidth,
              queryForceTable>>

\* the argument and results of the cell truncator
cellVars == <<cellText, cellWidth, wrapped>>

\* the container runtime and the call of the lifecycle operation
dockerVars == <<containers, nextID, calls, call>>

-----------------------------------------------------------------------------
(* Bounds of the model *)

\* most rows a modelled result set holds
MaxRows == 3
\* most characters the interactive accumulation buffer may hold before the
\* model stops feeding it further non-terminated lines
MaxBuf == 4
\* most words of a text handed to the cell truncator
MaxWords == 3
\* how many times in a row the cell truncator is applied to its own result
MaxCalls == 2
\* how many times StartEmbeddedMindsDB is called in a run
MaxStarts == 3

-----------------------------------------------------------------------------
(* Program constants *)

VerticalColumnThreshold == 15
LongCellThreshold == 200
EstimateCap == 40
EstimatePadding == 3
EstimateSlack == 50
DefaultMaxWidth == 20
CompactMaxWidth == 15
LongAverage == 50
MinColumnWidth == 4
MinAvailableWidth == 20
FallbackAvailableWidth == 80
DefaultTerminalWidth == 120
HelpTextColumnThreshold == 8
ShortWidth == 8
LongTextThreshold == 200
WordWrapMinWidth == 15

-----------------------------------------------------------------------------
(* String helpers (package strings / strconv) *)

Min(a, b) == IF a < b THEN a ELSE b

\* strings.Repeat for a one-character string
Rep(c, n) == [i \in 1..n |-> c]

\* s[n:] and s[:n]
Drop(s, n) == SubSeq(s, n + 1, Len(s))
Take(s, n) == SubSeq(s, 1, n)

IsSpace(c) == c \in {" ", "\t"}

RECURSIVE TrimLeft(_)
TrimLeft(s) ==
    IF s # <<>> /\ IsSpace(Head(s)) THEN TrimLeft(Tail(s)) ELSE s

RECURSIVE TrimRight(_)
TrimRight(s) ==
    IF s # <<>> /\ IsSpace(s[Len(s)]) THEN TrimRight(Take(s, Len(s) - 1)) ELSE s

TrimSpace(s) == TrimRight(TrimLeft(s))

HasPrefix(s, p) == Len(s) >= Len(p) /\ Take(s, Len(p)) = p
HasSuffix(s, p) == Len(s) >= Len(p) /\ Drop(s, Len(s) - Len(p)) = p
TrimPrefix(s, p) == IF HasPrefix(s, p) THEN Drop(s, Len(p)) ELSE s
TrimSuffix(s, p) == IF HasSuffix(s, p) THEN Take(s, Len(s) - Len(p)) ELSE s

Digits == <<"0", "1", "2", "3", "4", "5", "6", "7", "8", "9">>
IsDigit(c) == \E d \in 1..10 : Digits[d] = c
DigitVal(c) == (CHOOSE d \in 1..10 : Digits[d] = c) - 1

RECURSIVE ParseDigits(_, _)
ParseDigits(s, acc) ==
    IF s = <<>> THEN acc ELSE ParseDigits(Tail(s), acc * 10 + DigitVal(Head(s)))

\* strconv.Atoi: an optional sign followed by at least one decimal digit and
\* nothing else.  (Inputs of the model stay far below the int range, where
\* Atoi reports a range error.)
Atoi(s) ==
    LET signed == s # <<>> /\ Head(s) \in {"-", "+"}
        body   == IF signed THEN Tail(s) ELSE s
    IN  IF body = <<>> \/ \E i \in 1..Len(body) : ~IsDigit(body[i])
        THEN [ok |-> FALSE, val |-> 0]
        ELSE [ok |-> TRUE,
              val |-> IF signed /\ Head(s) = "-"
                      THEN 0 - ParseDigits(body, 0)
                      ELSE ParseDigits(body, 0)]

\* strings.Contains for a one-character substring
Contains(s, c) == \E i \in 1..Len(s) : s[i] = c

\* the elements of a finite set of integers in increasing order
Ascending(S) ==
    [k \in 1..Cardinality(S) |->
        CHOOSE x \in S : Cardinality({ y \in S : y < x }) = k - 1]

\* strings.Fields: the maximal runs of non-space characters
Fields(s) ==
    LET blank(i) == IsSpace(s[i]) \/ s[i] = "\n"
        starts == Ascending({ i \in 1..Len(s) :
                                ~blank(i) /\ (i = 1 \/ blank(i - 1)) })
        ends   == Ascending({ i \in 1..Len(s) :
                                ~blank(i) /\ (i = Len(s) \/ blank(i + 1)) })
    IN  [k \in 1..Len(starts) |-> SubSeq(s, starts[k], ends[k])]

\* strings.Join
RECURSIVE Join(_, _)
Join(parts, sep) ==
    IF parts = <<>> THEN <<>>
    ELSE IF Len(parts) = 1 THEN parts[1]
    ELSE parts[1] \o sep \o Join(Tail(parts), sep)

\* strings.Split for a one-character separator: the pieces between the
\* occurrences of the separator
Split(s, c) ==
    LET cuts == Ascending({0, Len(s) + 1} \cup { i \in 1..Len(s) : s[i] = c })
    IN  [k \in 1..(Len(cuts) - 1) |-> SubSeq(s, cuts[k] + 1, cuts[k + 1] - 1)]

\* strings.ReplaceAll of a one-character string
ReplaceAll(s, c, new) == Join(Split(s, c), new)

\* Go's integer division and float-to-int conversion truncate toward zero
TruncDiv(a, b) == IF a >= 0 THEN a \div b ELSE 0 - ((0 - a) \div b)

-----------------------------------------------------------------------------
(* Text constants *)

FormatTable == <<"t", "a", "b", "l", "e">>
FormatJSON  == <<"j", "s", "o", "n">>
FormatCSV   == <<"c", "s", "v">>
FormatXML   == <<"x", "m", "l">>
NullText    == <<"N", "U", "L", "L">>
Quote       == "\""
Ellipsis    == <<".", ".", ".">>


-----------------------------------------------------------------------------
(* The opaque row source: what the server may answer to a query *)

\* a raw driver value: SQL NULL, or bytes/text
NilValue == [isNil |-> TRUE, bytes |-> <<>>]
TextValue(s) == [isNil |-> FALSE, bytes |-> s]

HeaderShort == <<"i", "d">>
HeaderLong  == <<"d", "e", "s", "c", "r", "i", "p", "t", "i", "o", "n", "s">>
Headers     == {HeaderShort, HeaderLong}

FillValues    == {TextValue(Rep("a", 2)), TextValue(Rep("a", 60))}
SpecialValues == {NilValue, TextValue(<<>>), TextValue(Rep("a", 201))}

ColumnCounts == {1, 8, 14, 15}
TerminalWidths == {19, 20, 45, DefaultTerminalWidth}

\* row r of a grid: its first cell is the row number (rows are pairwise
\* different), the last cell of the first row is the special value
GridRow(nc, r, fill, special) ==
    [c \in 1..nc |->
        IF r = 1 /\ c = nc THEN special
        ELSE IF c = 1 THEN TextValue(<<Digits[r + 1]>>)
        ELSE fill]

Grid(nc, nr, hdr, fill, special) ==
    [kind    |-> "rows",
     columns |-> [c \in 1..nc |-> hdr],
     raw     |-> [r \in 1..nr |-> GridRow(nc, r, fill, special)]]

ResultSets ==
    { Grid(nc, nr, hdr, fill, special) :
        nc \in ColumnCounts, nr \in 0..MaxRows, hdr \in Headers,
        fill \in FillValues, special \in SpecialValues }

ServerError(kind) == [kind |-> kind, columns |-> <<>>, raw |-> <<>>]

\* eight columns without a name and no row (SELECT '', '', ...)
UnnamedColumns == Grid(HelpTextColumnThreshold, 0, <<>>, NilValue, NilValue)

\* a statement without a result set (len(columns) == 0)
NoResultSet == [kind |-> "rows", columns |-> <<>>, raw |-> <<>>]

\* one row of one cell that holds two words (SELECT 'aaa... aaa...')
TwoWordCell ==
    Grid(1, 1, HeaderShort, NilValue,
         TextValue(Rep("a", 15) \o <<" ">> \o Rep("a", 15)))

ServerResponses ==
    ResultSets \cup {UnnamedColumns, TwoWordCell, NoResultSet,
                     ServerError("queryErr"), ServerError("columnsErr"),
                     ServerError("scanErr")}

-----------------------------------------------------------------------------
(* executeAndDisplayQuery and the renderer *)

NoOut ==
    [kind |-> "none", msg |-> "", executed |-> FALSE, layout |-> "",
     hint |-> FALSE, shown |-> <<>>, fault |-> FALSE, auto |-> "",
     branch |-> "", ceiling |-> 0, available |-> 0, colWidths |-> <<>>,
     termWidth |-> 0, cells |-> <<>>, text |-> <<>>]

Message(m) == [NoOut EXCEPT !.kind = "message", !.msg = m]

\* query.go 110-126: a raw value becomes a display string
displayString(v) == IF v.isNil THEN NullText ELSE v.bytes

materialize(raw) ==
    [r \in 1..Len(raw) |-> [c \in 1..Len(raw[r]) |-> displayString(raw[r][c])]]

\* The emitters report the rows they printed, as positions in the slice they
\* were handed, whether they ended in a run-time panic, the values they
\* printed for each of those rows (cells) and, for JSON and CSV, the data
\* lines they wrote (text).
RECURSIVE emitJSON(_, _, _, _)
emitJSON(cols, rows, r, shown) ==
    IF r > Len(rows) THEN [shown |-> shown, fault |-> FALSE]
    ELSE IF Len(rows[r]) < Len(cols)
         THEN [shown |-> shown, fault |-> TRUE]    \* row[j]: index out of range
         ELSE emitJSON(cols, rows, r + 1, Append(shown, r))

\* mutant of jsonValue: the value written between quotes as it is
jsonValue_raw(v) == <<Quote>> \o v \o <<Quote>>

\* displayAsJSON 150: "%s" around strings.ReplaceAll(row[j], `"`, `\"`)
jsonValue(v) == <<Quote>> \o ReplaceAll(v, Quote, <<"\\", Quote>>) \o <<Quote>>

\* displayAsJSON 148-158: one row
jsonRow(cols, rows, i) ==
    <<" ", " ", "{">>
    \o Join([j \in 1..Len(cols) |->
                <<Quote>> \o cols[j] \o <<Quote, ":", " ">> \o jsonValue(rows[i][j])],
            <<",", " ">>)
    \o <<"}">> \o (IF i < Len(rows) THEN <<",">> ELSE <<>>) \o <<"\n">>

\* displayAsJSON 146-161; after a panic the lines of the rows completed
\* before it
jsonText(cols, rows, e) ==
    <<"[", "\n">>
    \o Join([i \in 1..Len(e.shown) |-> jsonRow(cols, rows, i)], <<>>)
    \o (IF e.fault THEN <<>> ELSE <<"]", "\n">>)

displayAsJSON(cols, rows) ==
    LET e == emitJSON(cols, rows, 1, <<>>)
    IN  [NoOut EXCEPT !.kind = "result", !.executed = TRUE, !.layout = "json",
                      !.shown = e.shown, !.fault = e.fault,
                      !.cells = [i \in 1..Len(e.shown) |->
                                    [j \in 1..Len(cols) |-> jsonValue(rows[i][j])]],
                      !.text = jsonText(cols, rows, e)]

RECURSIVE emitCSV(_, _, _)
emitCSV(rows, r, shown) ==
    IF r > Len(rows) THEN shown ELSE emitCSV(rows, r + 1, Append(shown, r))

\* mutant of csvField: the field written between quotes as it is
csvField_raw(s) == <<Quote>> \o s \o <<Quote>>

\* displayAsCSV 173, 183: "%s" around strings.ReplaceAll(cell, `"`, `""`)
csvField(s) == <<Quote>> \o ReplaceAll(s, Quote, <<Quote, Quote>>) \o <<Quote>>

\* displayAsCSV 172-178, 182-188: the fields of one record, separated by
\* commas, and the line end
csvFields(row) == [i \in 1..Len(row) |-> csvField(row[i])]
csvRecord(row) == Join(csvFields(row), <<",">>) \o <<"\n">>

\* displayAsCSV 171-189: the header record, then one record per row
csvText(cols, rows) ==
    csvRecord(cols) \o Join([r \in 1..Len(rows) |-> csvRecord(rows[r])], <<>>)

csvOutput(cols, rows) ==
    [NoOut EXCEPT !.kind = "result", !.executed = TRUE, !.layout = "csv",
                  !.shown = emitCSV(rows, 1, <<>>),
                  !.cells = [r \in 1..Len(rows) |-> csvFields(rows[r])],
                  !.text = csvText(cols, rows)]

\* mutant of displayAsCSV: the row limit of the table path applied to CSV
displayAsCSV_limited(cols, rows) ==
    csvOutput(cols, IF queryLimit > 0 /\ Len(rows) > queryLimit
                    THEN Take(rows, queryLimit) ELSE rows)

displayAsCSV(cols, rows) == csvOutput(cols, rows)

\* the running maximum of a column: colWidth starts at w and grows with every
\* row that has a cell i longer than it
RECURSIVE contentWidth(_, _, _)
contentWidth(rows, i, w) ==
    IF rows = <<>> THEN w
    ELSE LET row == Head(rows)
         IN  contentWidth(Tail(rows), i,
                          IF i <= Len(row) /\ Len(row[i]) > w THEN Len(row[i]) ELSE w)

RECURSIVE hasLongCell(_, _, _)
hasLongCell(rows, r, c) ==
    IF r > Len(rows) THEN FALSE
    ELSE IF c > Len(rows[r]) THEN hasLongCell(rows, r + 1, 1)
    ELSE IF Len(rows[r][c]) > LongCellThreshold THEN TRUE
    ELSE hasLongCell(rows, r, c + 1)

RECURSIVE estimatedWidth(_, _, _, _)
estimatedWidth(cols, rows, i, acc) ==
    IF i > Len(cols) THEN acc
    ELSE LET colWidth == contentWidth(rows, i, Len(cols[i]))
             capped   == IF colWidth > EstimateCap THEN EstimateCap ELSE colWidth
         IN  estimatedWidth(cols, rows, i + 1, acc + capped + EstimatePadding)

\* mutant of shouldUseVerticalLayout: the estimate compared with >=
shouldUseVerticalLayout_atLeast(cols, rows, termWidth) ==
    IF Len(cols) >= VerticalColumnThreshold THEN TRUE
    ELSE IF hasLongCell(rows, 1, 1) THEN TRUE
    ELSE IF estimatedWidth(cols, rows, 1, 0) >= termWidth + EstimateSlack THEN TRUE
    ELSE FALSE

shouldUseVerticalLayout(cols, rows, termWidth) ==
    IF Len(cols) >= VerticalColumnThreshold THEN TRUE
    ELSE IF hasLongCell(rows, 1, 1) THEN TRUE
    ELSE IF estimatedWidth(cols, rows, 1, 0) > termWidth + EstimateSlack THEN TRUE
    ELSE FALSE


\* displayWideTable: the row loop.  The value of row r, column i is cut with
\* value[:termWidth-maxColNameLen-13], which panics when that bound is
\* negative; strings.Repeat panics on a negative count.
RECURSIVE maxColNameLen(_, _, _)
maxColNameLen(cols, i, m) ==
    IF i > Len(cols) THEN m
    ELSE maxColNameLen(cols, i + 1, IF Len(cols[i]) > m THEN Len(cols[i]) ELSE m)

wideCellFaults(cols, row, i, termWidth) ==
    LET value == IF i <= Len(row) THEN row[i] ELSE <<>>
        room  == termWidth - maxColNameLen(cols, 1, 0)
    IN  Len(value) > room - 10 /\ (room - 13 < 0 \/ room - 13 > Len(value))

RECURSIVE emitWide(_, _, _, _, _)
emitWide(cols, rows, termWidth, r, shown) ==
    IF r > Len(rows) THEN [shown |-> shown, fault |-> FALSE]
    ELSE IF Min(termWidth - 1, 60) < 0
              \/ \E i \in 1..Len(cols) : wideCellFaults(cols, rows[r], i, termWidth)
         THEN [shown |-> shown, fault |-> TRUE]
         ELSE emitWide(cols, rows, termWidth, r + 1, Append(shown, r))

\* displayWideTable 316-334: the value printed for column i of a row that
\* raised no panic
wideValue(cols, row, i, termWidth) ==
    LET value == IF i <= Len(row) THEN row[i] ELSE <<>>
        room  == termWidth - maxColNameLen(cols, 1, 0)
        cut   == IF Len(value) > room - 10
                 THEN Take(value, room - 13) \o Ellipsis ELSE value
    IN  IF cut = <<>> THEN NullText ELSE cut

displayWideTable(cols, rows, termWidth) ==
    LET e == IF Len(rows) = 0 THEN [shown |-> <<>>, fault |-> FALSE]
             ELSE emitWide(cols, rows, termWidth, 1, <<>>)
    IN  [shown |-> e.shown, fault |-> e.fault,
         cells |-> [r \in 1..Len(e.shown) |->
                       [i \in 1..Len(cols) |-> wideValue(cols, rows[r], i, termWidth)]]]

\* printTable prints every row it is handed; none of its slices can fail
\* (each is guarded by a length test)
RECURSIVE printTable(_, _, _)
printTable(rows, r, shown) ==
    IF r > Len(rows) THEN shown ELSE printTable(rows, r + 1, Append(shown, r))

\* printTable 594-613: the text printed for column i of a row, before padding
printCell(row, i, width) ==
    LET cell == IF i <= Len(row) THEN row[i] ELSE <<>>
        cut  == IF Len(cell) > width
                THEN (IF width > 3 THEN Take(cell, width - 3) \o Ellipsis
                      ELSE Take(cell, width))
                ELSE cell
    IN  IF cut = <<>> THEN NullText ELSE cut

\* printTable 591-624: the cells of the data rows
printTableCells(cols, rows, colWidths) ==
    [r \in 1..Len(rows) |->
        [i \in 1..Len(cols) |-> printCell(rows[r], i, colWidths[i])]]

RECURSIVE SumSeq(_)
SumSeq(s) == IF s = <<>> THEN 0 ELSE Head(s) + SumSeq(Tail(s))

rowContentWidth(row) == SumSeq([c \in 1..Len(row) |-> Len(row[c])])
totalContentWidth(rows) == SumSeq([r \in 1..Len(rows) |-> rowContentWidth(rows[r])])

\* calculateColumnWidths 401-427: the ceiling
effectiveMaxWidth(cols, rows) ==
    LET flag    == IF queryMaxWidth <= 0 THEN DefaultMaxWidth ELSE queryMaxWidth
        compact == IF queryCompact THEN CompactMaxWidth ELSE flag
        avg     == IF Len(rows) > 0 /\ Len(cols) > 0
                   THEN totalContentWidth(rows) \div (Len(rows) * Len(cols))
                   ELSE 0
    IN  IF avg > LongAverage THEN CompactMaxWidth ELSE compact

\* calculateColumnWidths 382-399: header width, grown by every longer cell
initialWidths(cols, rows) ==
    [i \in 1..Len(cols) |-> contentWidth(rows, i, Len(cols[i]))]

separatorOverhead(cols) == (Len(cols) - 1) * 3 + 4

\* calculateColumnWidths 429-438
totalWidth(cols, rows) ==
    LET w  == initialWidths(cols, rows)
        mw == effectiveMaxWidth(cols, rows)
    IN  SumSeq([i \in 1..Len(w) |-> IF w[i] > mw THEN mw ELSE w[i]])
        + separatorOverhead(cols)

\* int(NaN) is implementation-dependent in Go: the stand-ins cover a value below
\* every floor, zero, and a value above every ceiling
NaNConversions == {0 - 1000000, 0, 1000000}

\* The pre-cap widths whose scaled value w * num / den is a positive integer.
\* The code computes float64(w) * (float64(num) / float64(den)); the rounded
\* quotient can leave that product one ulp below the integer (49 * (1.0/49)
\* is 0.9999999999999999), and int() then yields one less.  The model admits
\* both outcomes for such a width, the same outcome for equal widths.
exactWidths(cols, rows, availableWidth) ==
    LET w   == initialWidths(cols, rows)
        num == availableWidth - separatorOverhead(cols)
        den == totalWidth(cols, rows) - separatorOverhead(cols)
    IN  IF totalWidth(cols, rows) > availableWidth /\ den # 0 /\ num > 0
        THEN { w[i] : i \in { j \in 1..Len(w) : w[j] > 0 /\ (w[j] * num) % den = 0 } }
        ELSE {}

nanPossible(cols, rows, availableWidth) ==
    /\ totalWidth(cols, rows) > availableWidth
    /\ totalWidth(cols, rows) - separatorOverhead(cols) = 0

scaledWidth(w, num, den, low, nan) ==
    IF den = 0 THEN nan
    ELSE IF w \in low THEN TruncDiv(w * num, den) - 1
    ELSE TruncDiv(w * num, den)

\* mutant of clampWidth: the floor applied after the cap
clampWidth_floorLast(newWidth, maxWidth) ==
    LET capped == IF newWidth > maxWidth THEN maxWidth ELSE newWidth
    IN  IF capped < MinColumnWidth THEN MinColumnWidth ELSE capped

clampWidth(newWidth, maxWidth) ==
    LET floored == IF newWidth < MinColumnWidth THEN MinColumnWidth ELSE newWidth
    IN  IF floored > maxWidth THEN maxWidth ELSE floored

calculateColumnWidths(cols, rows, availableWidth, low, nan) ==
    LET w   == initialWidths(cols, rows)
        mw  == effectiveMaxWidth(cols, rows)
        tot == totalWidth(cols, rows)
        num == availableWidth - separatorOverhead(cols)
        den == tot - separatorOverhead(cols)
    IN  IF tot > availableWidth
        THEN [branch |-> "shrink", ceiling |-> mw,
              colWidths |-> [i \in 1..Len(w) |->
                                clampWidth(scaledWidth(w[i], num, den, low, nan), mw)]]
        ELSE [branch |-> "fits", ceiling |-> mw,
              colWidths |-> [i \in 1..Len(w) |-> IF w[i] > mw THEN mw ELSE w[i]]]

\* displayAsTable 196-201: the row limit
limitApplies(rows) == queryLimit > 0 /\ Len(rows) > queryLimit
limitRows(rows) == IF limitApplies(rows) THEN Take(rows, queryLimit) ELSE rows

\* mutant of chooseLayout: force-table tested before vertical
chooseLayout_forceFirst(cols, rows, termWidth) ==
    IF queryForceTable THEN "table"
    ELSE IF queryVertical THEN "vertical"
    ELSE IF shouldUseVerticalLayout(cols, rows, termWidth) THEN "vertical"
    ELSE "table"

\* displayAsTable 206-218: which emitter gets the rows
chooseLayout(cols, rows, termWidth) ==
    IF queryVertical THEN "vertical"
    ELSE IF ~queryForceTable /\ shouldUseVerticalLayout(cols, rows, termWidth)
         THEN "vertical"
         ELSE "table"

\* displayAsTable 221-225
availableWidthFor(cols, termWidth) ==
    LET a == termWidth - (Len(cols) * 3) - 1
    IN  IF a < MinAvailableWidth THEN FallbackAvailableWidth ELSE a

displayAsTable(cols, rows, termWidth, low, nan) ==
    LET shownRows == limitRows(rows)
        layout    == chooseLayout(cols, shownRows, termWidth)
        auto      == IF queryVertical \/ queryForceTable THEN ""
                     ELSE IF shouldUseVerticalLayout(cols, shownRows, termWidth)
                          THEN "vertical" ELSE "table"
        base      == [NoOut EXCEPT !.kind = "result", !.executed = TRUE,
                                   !.layout = layout, !.auto = auto,
                                   !.hint = limitApplies(rows),
                                   !.termWidth = termWidth]
    IN  IF layout = "vertical"
        THEN LET e == displayWideTable(cols, shownRows, termWidth)
             IN  [base EXCEPT !.shown = e.shown, !.fault = e.fault,
                              !.cells = e.cells]
        ELSE LET avail == availableWidthFor(cols, termWidth)
                 plan  == calculateColumnWidths(cols, shownRows, avail, low, nan)
             IN  [base EXCEPT !.shown = printTable(shownRows, 1, <<>>),
                              !.cells = printTableCells(cols, shownRows,
                                                        plan.colWidths),
                              !.branch = plan.branch, !.ceiling = plan.ceiling,
                              !.available = avail, !.colWidths = plan.colWidths]


-----------------------------------------------------------------------------
(* The cell truncator: truncateOrWrapText and wrapText (query.go 483-565) *)

\* wrapText 548-562: the loop over the words
RECURSIVE wrapWords(_, _, _, _)
wrapWords(words, width, currentLine, lines) ==
    IF words = <<>>
    THEN (IF Len(currentLine) > 0 THEN Append(lines, currentLine) ELSE lines)
    ELSE LET word == Head(words)
         IN  IF Len(currentLine) = 0
             THEN wrapWords(Tail(words), width, word, lines)
             ELSE IF Len(currentLine) + 1 + Len(word) <= width
             THEN wrapWords(Tail(words), width, currentLine \o <<" ">> \o word, lines)
             ELSE wrapWords(Tail(words), width, word, Append(lines, currentLine))

wrapText(t, width) ==
    IF Len(t) <= width THEN t
    ELSE IF Len(Fields(t)) = 0 THEN t
    ELSE Join(wrapWords(Fields(t), width, <<>>, <<>>), <<"\n">>)

\* truncateOrWrapText 501-512: the words that fit, joined by single spaces
RECURSIVE leadingWords(_, _, _)
leadingWords(words, width, result) ==
    IF words = <<>> THEN result
    ELSE IF Len(result) + Len(Head(words)) + 4 <= width
         THEN leadingWords(Tail(words), width,
                           IF result = <<>> THEN Head(words)
                           ELSE result \o <<" ">> \o Head(words))
         ELSE result

Returned(t) == [fault |-> FALSE, text |-> t]

\* t[:n]: a run-time panic unless 0 <= n <= len(t)
Slice(t, n) ==
    IF n < 0 \/ n > Len(t) THEN [fault |-> TRUE, text |-> <<>>]
    ELSE Returned(Take(t, n))

WithEllipsis(r) == IF r.fault THEN r ELSE Returned(r.text \o Ellipsis)

\* truncateOrWrapText 524: the first line of the wrapped text, with ellipsis
firstLine(lines, width) == lines[1] \o Ellipsis

truncateOrWrapText(t, width) ==
    LET words == Fields(t)
        lead  == leadingWords(words, width, <<>>)
        lines == Split(wrapText(t, width), "\n")
    IN  IF Len(t) <= width THEN Returned(t)
        ELSE IF width <= ShortWidth
        THEN (IF Len(t) > width - 3 THEN WithEllipsis(Slice(t, width - 3))
              ELSE Returned(t))
        ELSE IF Len(t) > LongTextThreshold /\ Len(words) > 0
                /\ lead # <<>> /\ Len(lead) < Len(t)
        THEN Returned(lead \o Ellipsis)
        ELSE IF Contains(t, " ") /\ width > WordWrapMinWidth /\ Len(lines) > 1
        THEN Returned(firstLine(lines, width))
        ELSE IF width > 3 THEN WithEllipsis(Slice(t, width - 3))
        ELSE Slice(t, width)

\* the texts and widths the truncator is called with
WordLengths == {1, 5, 9, 20}
Word(n) == Rep("a", n)

Phrases ==
    { Join([i \in 1..Len(f) |-> Word(f[i])], <<" ">>) :
        f \in UNION { [1..k -> WordLengths] : k \in 1..MaxWords } }

LongPhrase == Join([i \in 1..41 |-> Word(5)], <<" ">>)

CellTexts ==
    Phrases \cup { <<>>, <<" ">> \o Word(20), LongPhrase, Word(201),
                   Word(20) \o <<" ">> \o Word(201) }

CellWidths == {0, 2, 3, 4, 8, 9, 15, 16, 20}

-----------------------------------------------------------------------------
(* The client (package mindsdb) *)

NoClient ==
    [EmbeddedMode |-> FALSE, IsMySQL |-> FALSE, MySQLConn |-> FALSE, PgConn |-> FALSE]

\* NewClient on success: a PostgreSQL connection
ExternalClient ==
    [EmbeddedMode |-> FALSE, IsMySQL |-> FALSE, MySQLConn |-> FALSE, PgConn |-> TRUE]

\* NewEmbeddedClient on success: a MySQL connection to the container
EmbeddedClient ==
    [EmbeddedMode |-> TRUE, IsMySQL |-> TRUE, MySQLConn |-> TRUE, PgConn |-> FALSE]

\* MindsDBClient.Query: which branch answers
Query(c) ==
    IF c.IsMySQL /\ c.MySQLConn THEN "mysql"
    ELSE IF c.PgConn THEN "PostgreSQL query execution needs implementation"
    ELSE "no valid connection available"

\* connectToMindsDB: the constructor it calls, "" when it stops for missing
\* credentials
connectBranch ==
    IF queryEmbedded THEN "embedded"
    ELSE IF queryHost # ""
         THEN IF queryUser = "" \/ queryPass = "" THEN "" ELSE "external"
         ELSE "embedded"

\* "Query execution failed" / "Error": the query returned an error; executed
\* tells whether it was sent over the connection
Failure(m, executed) ==
    [NoOut EXCEPT !.kind = "error", !.msg = m, !.executed = executed]

ConnectFailure(m) == [NoOut EXCEPT !.kind = "connectError", !.msg = m]

NoResults ==
    [NoOut EXCEPT !.kind = "empty", !.msg = "no results returned", !.executed = TRUE]

\* switch queryFormat (query.go 131-139)
display(cols, rows, termWidth, low, nan) ==
    IF queryFormat = FormatJSON THEN displayAsJSON(cols, rows)
    ELSE IF queryFormat = FormatCSV THEN displayAsCSV(cols, rows)
    ELSE displayAsTable(cols, rows, termWidth, low, nan)

\* executeAndDisplayQuery: the query is sent through the client; the server
\* answers with an error, with no result set, or with a result set, which is
\* materialized and handed to the emitter of the current format.  The
\* terminal width is read when the table path asks for it.  responses and
\* widths are the answers the server and the terminal may give.
executeAndDisplayQuery(responses, widths) ==
    IF Query(client) # "mysql"
    THEN /\ out' = Failure(Query(client), FALSE)
         /\ columns' = <<>>
         /\ allRows' = <<>>
    ELSE \E resp \in responses :
            /\ columns' = resp.columns
            /\ allRows' = materialize(resp.raw)
            /\ IF resp.kind # "rows"
               THEN out' = Failure(resp.kind, TRUE)
               ELSE IF Len(resp.columns) = 0
               THEN out' = NoResults
               ELSE \E termWidth \in widths :
                       LET rows  == materialize(resp.raw)
                           shown == limitRows(rows)
                           avail == availableWidthFor(resp.columns, termWidth)
                       IN  \E low \in SUBSET exactWidths(resp.columns, shown, avail) :
                           \E nan \in (IF nanPossible(resp.columns, shown, avail)
                                       THEN NaNConversions ELSE {0}) :
                              out' = display(resp.columns, rows, termWidth, low, nan)

-----------------------------------------------------------------------------
(* The embedded instance: the container runtime as the client drives it    *)
(* through the docker command line                                         *)

\* waitForMindsDB: maxAttempts
maxAttempts == 30

\* the empty container id
NoID == <<>>

\* the id docker prints for the n-th container it creates
ContainerID(n) == Rep("c", n)

\* StartEmbeddedMindsDB before it is called: found and running are what the
\* two lookups answered, before the containers docker held when the call
\* began, ops the docker commands the call ran, pings the results of the
\* connection attempts of the readiness probe, probe what waitForMindsDB
\* returned ("none": not called, "waiting": still in its loop), id and err
\* the values the call returned
NoCall ==
    [found |-> NoID, running |-> FALSE, before |-> {}, ops |-> <<>>,
     pings |-> <<>>, probe |-> "none", returned |-> FALSE, id |-> NoID,
     err |-> ""]

\* no lifecycle operation takes part in the run
NoDocker ==
    /\ containers = {}
    /\ nextID = 1
    /\ calls = 0
    /\ call = NoCall

\* findExistingContainer: docker ps -a --filter name=...; "" when the command
\* fails or lists nothing
findExistingContainer(answers) ==
    IF ~answers \/ containers = {} THEN NoID
    ELSE (CHOOSE c \in containers : TRUE).id

\* isContainerRunning: docker ps --filter id=...; false when the command fails
isContainerRunning(containerID, answers) ==
    answers /\ \E c \in containers : c.id = containerID /\ c.running

\* docker start <id> that succeeded
startContainer(containerID) ==
    { [id |-> c.id, running |-> (c.running \/ c.id = containerID)] :
      c \in containers }

\* docker run -d --name mindsdb-cli-embedded: the container is created and
\* started, is created but cannot be started (a published port is taken), or
\* is not created; docker refuses the name while a container holds it
RunOutcomes == {"started", "created", "failed"}

dockerRun(outcome) ==
    IF containers # {} \/ outcome = "failed" THEN containers
    ELSE { [id |-> ContainerID(nextID), running |-> (outcome = "started")] }

runSucceeds(outcome) == containers = {} /\ outcome = "started"

\* docker stop <id> that succeeded
stopContainer(containerID) ==
    { [id |-> c.id, running |-> (c.running /\ c.id # containerID)] :
      c \in containers }

\* docker rm <id> that succeeded
removeContainer(containerID) == { c \in containers : c.id # containerID }

\* mutant of alreadyRunning: the running container is not recognized
alreadyRunning_never(containerID, running) == FALSE

\* StartEmbeddedMindsDB 120-121: the container exists and is running
alreadyRunning(containerID, running) == containerID # NoID /\ running

\* mutant of budgetLeft: one more attempt than the budget
budgetLeft_more(i) == i <= maxAttempts + 1

\* waitForMindsDB 204: the loop condition
budgetLeft(i) == i <= maxAttempts

\* the call returns
Return(c, id, err) == [c EXCEPT !.returned = TRUE, !.id = id, !.err = err]

-----------------------------------------------------------------------------
(* The command: queryCmd.Run *)

configVars == <<queryFormat, queryCompact, queryVertical, queryLimit>>
loopVars == <<multiLineQuery, inMultiLine, line>>

\* connectToMindsDB, called by Run (one-shot) and by startInteractiveMode
Connect ==
    /\ pc = "start"
    /\ UNCHANGED <<sql, flagVars, configVars, loopVars, columns, allRows, cellVars, dockerVars>>
    /\ IF connectBranch = ""
       THEN /\ client' = NoClient
            /\ pc' = "done"
            /\ out' = ConnectFailure("missing credentials")
       ELSE \E ok \in BOOLEAN :
               IF ok
               THEN /\ client' = IF connectBranch = "external"
                                 THEN ExternalClient ELSE EmbeddedClient
                    /\ pc' = IF sql # <<>> THEN "run" ELSE "prompt"
                    /\ out' = Message("connected")
               ELSE /\ client' = NoClient
                    /\ pc' = "done"
                    /\ out' = ConnectFailure("connection failed")

\* Run with a query given as argument or --sql: execute it once and return
RunQuery ==
    /\ pc = "run"
    /\ executeAndDisplayQuery(ServerResponses, TerminalWidths)
    /\ pc' = "done"
    /\ UNCHANGED <<sql, flagVars, configVars, loopVars, client, cellVars, dockerVars>>

-----------------------------------------------------------------------------
(* Initial states: the flags as parsed by cobra (init(), query.go 854-866) *)

OneShotSQL == <<"q">>

ConnectionFlags ==
    { [embedded |-> TRUE,  host |-> "",  user |-> "",  pass |-> ""],
      [embedded |-> FALSE, host |-> "",  user |-> "",  pass |-> ""],
      [embedded |-> FALSE, host |-> "h", user |-> "u", pass |-> "p"],
      [embedded |-> FALSE, host |-> "h", user |-> "u", pass |-> ""] }

FormatFlags   == {FormatTable, FormatJSON, FormatCSV, FormatXML}
MaxWidthFlags == {0, 3, DefaultMaxWidth}
LimitFlags    == {0 - 1, 0, 2}

InitFlags(conn) ==
    /\ queryEmbedded = conn.embedded
    /\ queryHost = conn.host
    /\ queryUser = conn.user
    /\ queryPass = conn.pass
    /\ client = NoClient
    /\ multiLineQuery = <<>>
    /\ inMultiLine = FALSE
    /\ line = <<>>
    /\ columns = <<>>
    /\ allRows = <<>>
    /\ out = NoOut
    /\ cellText = <<>>
    /\ cellWidth = 0
    /\ wrapped = <<>>
    /\ NoDocker
    /\ pc = "start"

\* The flag combinations the one-shot runs of the model start from: the layout
\* flags in every combination for the table format; for the other formats,
\* and with --vertical (which bypasses the width solver), the width flags at
\* their defaults.
OneShotFlags ==
    { f \in [format : FormatFlags, maxWidth : MaxWidthFlags, compact : BOOLEAN,
             vertical : BOOLEAN, limit : LimitFlags, forceTable : BOOLEAN] :
        \/ f.format = FormatTable /\ ~f.vertical
        \/ f.format = FormatTable /\ f.maxWidth = DefaultMaxWidth /\ ~f.compact
        \/ /\ f.maxWidth = DefaultMaxWidth
           /\ ~f.compact /\ ~f.vertical /\ ~f.forceTable }

\* mindsdb-cli query [flags] "SQL"
InitOneShot ==
    /\ sql = OneShotSQL
    /\ \E conn \in { c \in ConnectionFlags : c.embedded \/ c.pass # "" } :
          InitFlags(conn)
    /\ \E f \in OneShotFlags :
          /\ queryFormat = f.format
          /\ queryMaxWidth = f.maxWidth
          /\ queryCompact = f.compact
          /\ queryVertical = f.vertical
          /\ queryLimit = f.limit
          /\ queryForceTable = f.forceTable




-----------------------------------------------------------------------------
(* Interactive mode: startInteractiveMode and handleSpecialCommand *)

CmdExit     == <<".", "e", "x", "i", "t">>
CmdQuit     == <<".", "q", "u", "i", "t">>
CmdHelp     == <<".", "h", "e", "l", "p">>
CmdFormat   == <<".", "f", "o", "r", "m", "a", "t">>
CmdCompact  == <<".", "c", "o", "m", "p", "a", "c", "t">>
CmdVertical == <<".", "v", "e", "r", "t", "i", "c", "a", "l">>
CmdLimit    == <<".", "l", "i", "m", "i", "t">>
CmdClear    == <<".", "c", "l", "e", "a", "r">>
CmdBogus    == <<".", "b", "o", "g", "u", "s">>

\* the lines the operator may type (raw scanner text)
DirectiveLines ==
    { CmdExit, CmdQuit, CmdHelp, CmdCompact, CmdVertical, CmdClear, CmdBogus,
      CmdFormat, CmdLimit, CmdLimit \o <<" ">>,
      CmdFormat \o <<" ">> \o FormatJSON,
      CmdFormat \o <<" ">> \o FormatCSV,
      CmdFormat \o <<" ">> \o FormatTable,
      CmdFormat \o <<" ">> \o FormatXML,
      CmdFormat \o <<" ", " ">> \o FormatJSON \o <<" ">>,
      CmdLimit \o <<" ", "0">>,
      CmdLimit \o <<" ", "2">>,
      CmdLimit \o <<" ", "-", "1">>,
      CmdLimit \o <<" ", "x">> }

BlankLines == { <<>>, <<" ">> }
SQLLines   == { <<"a">>, <<"b", ";">>, <<";">> }
InputLines == DirectiveLines \cup BlankLines \cup SQLLines

\* the server and the terminal of the interactive runs of the model
InteractiveResponses ==
    { Grid(1, MaxRows, HeaderShort, TextValue(Rep("a", 2)), NilValue),
      Grid(VerticalColumnThreshold, 1, HeaderLong, TextValue(Rep("a", 2)),
           TextValue(<<>>)),
      NoResultSet, ServerError("queryErr"), ServerError("columnsErr"),
      ServerError("scanErr") }
InteractiveWidths == {20, DefaultTerminalWidth}

\* mutant of isKnownFormat: the format name is not validated
isKnownFormat_any(newFormat) == newFormat # <<>>

isKnownFormat(newFormat) ==
    newFormat = FormatTable \/ newFormat = FormatJSON \/ newFormat = FormatCSV

\* mutant of unknownCommand: an unknown command asks the loop to exit
unknownCommand_exit(keep) ==
    [keep EXCEPT !.msg = "Unknown command", !.hint = TRUE, !.exit = TRUE]

\* handleSpecialCommand 835-838: the error line and the hint line
unknownCommand(keep) == [keep EXCEPT !.msg = "Unknown command", !.hint = TRUE]

\* mutant of helpCommand: the help text also puts the settings back to their
\* defaults
helpCommand_defaults(keep) ==
    [keep EXCEPT !.msg = "help", !.format = FormatTable, !.compact = FALSE,
                 !.vertical = FALSE, !.limit = 0]

\* handleSpecialCommand 770-787: the help text
helpCommand(keep) == [keep EXCEPT !.msg = "help"]

\* mutant of flip: the directive switches its flag on
flip_on(flag) == TRUE

\* handleSpecialCommand 799, 807: queryCompact = !queryCompact,
\* queryVertical = !queryVertical
flip(flag) == ~flag

\* handleSpecialCommand: the settings after the command, the message it
\* prints, whether a hint line follows it and whether it asks the loop to
\* exit
handleSpecialCommand(command) ==
    LET keep == [exit |-> FALSE, format |-> queryFormat, compact |-> queryCompact,
                 vertical |-> queryVertical, limit |-> queryLimit, msg |-> "",
                 hint |-> FALSE]
    IN  IF command = CmdExit \/ command = CmdQuit
        THEN [keep EXCEPT !.exit = TRUE]
        ELSE IF command = CmdHelp
        THEN helpCommand(keep)
        ELSE IF HasPrefix(command, CmdFormat \o <<" ">>)
        THEN LET newFormat == TrimSpace(TrimPrefix(command, CmdFormat \o <<" ">>))
             IN  IF isKnownFormat(newFormat)
                 THEN [keep EXCEPT !.format = newFormat,
                                   !.msg = "Output format changed"]
                 ELSE [keep EXCEPT !.msg = "Invalid format"]
        ELSE IF command = CmdCompact
        THEN [keep EXCEPT !.compact = flip(queryCompact),
                          !.msg = IF flip(queryCompact) THEN "Compact mode enabled"
                                  ELSE "Compact mode disabled"]
        ELSE IF command = CmdVertical
        THEN [keep EXCEPT !.vertical = flip(queryVertical),
                          !.msg = IF flip(queryVertical) THEN "Vertical layout enabled"
                                  ELSE "Vertical layout disabled"]
        ELSE IF HasPrefix(command, CmdLimit \o <<" ">>)
        THEN LET limitStr == TrimSpace(TrimPrefix(command, CmdLimit \o <<" ">>))
                 parsed   == Atoi(limitStr)
             IN  IF limitStr = <<>>
                 THEN [keep EXCEPT !.msg = "Current row limit"]
                 ELSE IF parsed.ok
                 THEN [keep EXCEPT !.limit = parsed.val,
                                   !.msg = IF parsed.val = 0 THEN "Row limit disabled"
                                           ELSE "Row limit set"]
                 ELSE [keep EXCEPT !.msg = "Invalid number"]
        ELSE IF command = CmdClear
        THEN [keep EXCEPT !.msg = "clear"]
        ELSE unknownCommand(keep)

\* executeInteractiveQuery: run the query, report an error, return to the loop
executeInteractiveQuery(text) ==
    /\ sql' = text
    /\ executeAndDisplayQuery(InteractiveResponses, InteractiveWidths)

\* mutant of midEntry: an empty line always executes the buffer
midEntry_always(multi, buffer) == TRUE

\* startInteractiveMode 721: an empty line ends a multi-line entry
midEntry(multi, buffer) == multi /\ Len(buffer) > 0

\* mutant of appendLine: the line joined to the buffer without a space
appendLine_noSpace(multi, buffer, l) == buffer \o l

\* startInteractiveMode 740-745: the line goes to the buffer, after a space
\* when an entry is open
appendLine(multi, buffer, l) ==
    IF multi THEN buffer \o <<" ">> \o l ELSE buffer \o l

\* mutant of resetBuffer: the buffer survives the execution
resetBuffer_keep == UNCHANGED <<multiLineQuery, inMultiLine>>

\* startInteractiveMode 725-726, 754-755: multiLineQuery.Reset() and
\* inMultiLine = false
resetBuffer ==
    /\ multiLineQuery' = <<>>
    /\ inMultiLine' = FALSE

\* mutant of continueEntry: the line is kept, the flag is not raised
continueEntry_noFlag(buffer) ==
    /\ multiLineQuery' = buffer
    /\ UNCHANGED inMultiLine

\* startInteractiveMode 740-745, 756-759: the line stays in the buffer and
\* the entry is open
continueEntry(buffer) ==
    /\ multiLineQuery' = buffer
    /\ inMultiLine' = TRUE

\* scanner.Scan() fails (end of input): leave the loop
ReadEOF ==
    /\ pc = "prompt"
    /\ pc' = "done"
    /\ out' = Message("Goodbye")
    /\ line' = <<>>
    /\ sql' = <<>> /\ columns' = <<>> /\ allRows' = <<>>
    /\ UNCHANGED <<flagVars, configVars, multiLineQuery, inMultiLine, client, cellVars, dockerVars>>

\* an empty line (query.go 719-729)
ReadEmptyLine ==
    /\ pc = "prompt"
    /\ \E raw \in InputLines :
          /\ TrimSpace(raw) = <<>>
          /\ line' = TrimSpace(raw)
          /\ IF midEntry(inMultiLine, multiLineQuery)
             THEN /\ executeInteractiveQuery(TrimSpace(multiLineQuery))
                  /\ resetBuffer
             ELSE /\ out' = NoOut
                  /\ sql' = <<>> /\ columns' = <<>> /\ allRows' = <<>>
                  /\ UNCHANGED <<multiLineQuery, inMultiLine>>
    /\ UNCHANGED <<pc, flagVars, configVars, client, cellVars, dockerVars>>

\* a line starting with "." (query.go 731-737)
ReadDirective ==
    /\ pc = "prompt"
    /\ \E raw \in InputLines :
          LET l == TrimSpace(raw)
              r == handleSpecialCommand(l)
          IN  /\ l # <<>>
              /\ HasPrefix(l, <<".">>)
              /\ line' = l
              /\ queryFormat' = r.format
              /\ queryCompact' = r.compact
              /\ queryVertical' = r.vertical
              /\ queryLimit' = r.limit
              /\ pc' = IF r.exit THEN "done" ELSE "prompt"
              /\ out' = IF r.exit THEN Message("Goodbye")
                        ELSE [Message(r.msg) EXCEPT !.hint = r.hint]
    /\ sql' = <<>> /\ columns' = <<>> /\ allRows' = <<>>
    /\ UNCHANGED <<flagVars, client, multiLineQuery, inMultiLine, cellVars, dockerVars>>

\* a line of SQL (query.go 739-759).  A line that leaves the query open is
\* read only while the buffer stays within MaxBuf characters.
ReadSQLLine ==
    /\ pc = "prompt"
    /\ \E raw \in InputLines :
          LET l      == TrimSpace(raw)
              buffer == appendLine(inMultiLine, multiLineQuery, l)
              text   == TrimSpace(TrimSuffix(buffer, <<";">>))
          IN  /\ l # <<>>
              /\ ~HasPrefix(l, <<".">>)
              /\ line' = l
              /\ IF HasSuffix(l, <<";">>)
                 THEN /\ IF text # <<>>
                         THEN executeInteractiveQuery(text)
                         ELSE /\ out' = NoOut
                              /\ sql' = <<>> /\ columns' = <<>> /\ allRows' = <<>>
                      /\ resetBuffer
                 ELSE /\ Len(buffer) <= MaxBuf
                      /\ continueEntry(buffer)
                      /\ out' = NoOut
                      /\ sql' = <<>> /\ columns' = <<>> /\ allRows' = <<>>
    /\ UNCHANGED <<pc, flagVars, configVars, client, cellVars, dockerVars>>

\* mindsdb-cli query [connection flags]: no SQL given, the flags at their
\* defaults (query.go 855-865)
Init ==
    /\ sql = <<>>
    /\ \E conn \in { c \in ConnectionFlags : ~c.embedded } : InitFlags(conn)
    /\ queryFormat = FormatTable
    /\ queryMaxWidth = DefaultMaxWidth
    /\ queryCompact = FALSE
    /\ queryVertical = FALSE
    /\ queryLimit = 0
    /\ queryForceTable = FALSE

Next == Connect \/ ReadEOF \/ ReadEmptyLine \/ ReadDirective \/ ReadSQLLine

Spec == Init /\ [][Next]_vars

NextOneShot == Connect \/ RunQuery

SpecOneShot == InitOneShot /\ [][NextOneShot]_vars


-----------------------------------------------------------------------------
(* One-shot runs against a server whose names and values hold quotes,      *)
(* commas, line ends and backslashes                                       *)

QuotedHeader == <<"n", Quote, "m">>

QuotedValues ==
    { NilValue,
      TextValue(<<"1">>),
      TextValue(<<Quote>>),
      TextValue(<<"h", Quote, "i", Quote>>),
      TextValue(<<",", "\n">>),
      TextValue(<<"\\", Quote>>) }

QuotedRowCounts == 0..2

QuotedColumns ==
    { <<HeaderShort>>, <<QuotedHeader>>, <<HeaderShort, QuotedHeader>> }

\* rows.Scan fills one value per column
QuotedResponses ==
    UNION { { [kind |-> "rows", columns |-> cols, raw |-> raw] :
                raw \in UNION { [1..k -> [1..Len(cols) -> QuotedValues]] :
                                k \in QuotedRowCounts } } :
            cols \in QuotedColumns }

InitQuoted ==
    /\ sql = OneShotSQL
    /\ InitFlags(CHOOSE c \in ConnectionFlags : c.embedded)
    /\ queryFormat \in {FormatJSON, FormatCSV}
    /\ queryMaxWidth = DefaultMaxWidth
    /\ queryCompact = FALSE
    /\ queryVertical = FALSE
    /\ queryLimit = 0
    /\ queryForceTable = FALSE

\* Run with a query given as argument or --sql, against that server
RunQuoted ==
    /\ pc = "run"
    /\ executeAndDisplayQuery(QuotedResponses, {DefaultTerminalWidth})
    /\ pc' = "done"
    /\ UNCHANGED <<sql, flagVars, configVars, loopVars, client, cellVars, dockerVars>>

NextQuoted == Connect \/ RunQuoted

SpecQuoted == InitQuoted /\ [][NextQuoted]_vars

-----------------------------------------------------------------------------
(* The cell truncator on its own: truncateOrWrapText applied to a text and *)
(* then to its own result                                                  *)

commandVars == <<pc, sql, flagVars, configVars, loopVars, client, columns,
                 allRows, out>>

\* the command's variables while a function is exercised on its own
DefaultFlags ==
    /\ sql = <<>>
    /\ queryEmbedded = FALSE
    /\ queryHost = ""
    /\ queryUser = ""
    /\ queryPass = ""
    /\ queryFormat = FormatTable
    /\ queryMaxWidth = DefaultMaxWidth
    /\ queryCompact = FALSE
    /\ queryVertical = FALSE
    /\ queryLimit = 0
    /\ queryForceTable = FALSE
    /\ client = NoClient
    /\ multiLineQuery = <<>>
    /\ inMultiLine = FALSE
    /\ line = <<>>
    /\ columns = <<>>
    /\ allRows = <<>>
    /\ out = NoOut

InitTruncate ==
    /\ pc = "truncate"
    /\ DefaultFlags
    /\ cellText \in CellTexts
    /\ cellWidth \in CellWidths
    /\ wrapped = <<>>
    /\ NoDocker

\* one call of truncateOrWrapText: the first on the text, each later one on
\* the result of the call before it; a call that panicked has no successor
Truncate ==
    /\ pc = "truncate"
    /\ Len(wrapped) < MaxCalls
    /\ wrapped # <<>> => ~wrapped[Len(wrapped)].fault
    /\ wrapped' = Append(wrapped,
                         truncateOrWrapText(IF wrapped = <<>> THEN cellText
                                            ELSE wrapped[Len(wrapped)].text,
                                            cellWidth))
    /\ UNCHANGED <<cellText, cellWidth, commandVars, dockerVars>>

NextTruncate == Truncate

SpecTruncate == InitTruncate /\ [][NextTruncate]_vars

-----------------------------------------------------------------------------
(* The emitters on their own: display handed column names and a grid whose *)
(* rows may be shorter than the column list (the emitters take any         *)
(* [][]string; executeAndDisplayQuery itself only builds full rows)        *)

RaggedColumns == { <<HeaderShort>>, <<HeaderShort, HeaderShort>> }
RaggedCells == { <<"1">>, <<>> }
RaggedRowCounts == 0..2

RaggedRows(cols) ==
    UNION { [1..k -> UNION { [1..n -> RaggedCells] : n \in 0..Len(cols) }] :
            k \in RaggedRowCounts }

InitEmit ==
    /\ pc = "emit"
    /\ sql = <<>>
    /\ queryEmbedded = FALSE
    /\ queryHost = ""
    /\ queryUser = ""
    /\ queryPass = ""
    /\ queryFormat \in {FormatTable, FormatJSON, FormatCSV}
    /\ queryMaxWidth = DefaultMaxWidth
    /\ queryCompact = FALSE
    /\ queryVertical \in BOOLEAN
    /\ queryLimit = 0
    /\ queryForceTable = FALSE
    /\ client = NoClient
    /\ multiLineQuery = <<>>
    /\ inMultiLine = FALSE
    /\ line = <<>>
    /\ columns \in RaggedColumns
    /\ allRows \in RaggedRows(columns)
    /\ out = NoOut
    /\ cellText = <<>>
    /\ cellWidth = 0
    /\ wrapped = <<>>
    /\ NoDocker

\* the switch of executeAndDisplayQuery (131-139) on the grid as handed over
Emit ==
    /\ pc = "emit"
    /\ pc' = "done"
    /\ LET avail == availableWidthFor(columns, DefaultTerminalWidth)
       IN  \E low \in SUBSET exactWidths(columns, allRows, avail) :
           \E nan \in (IF nanPossible(columns, allRows, avail)
                       THEN NaNConversions ELSE {0}) :
              out' = display(columns, allRows, DefaultTerminalWidth, low, nan)
    /\ UNCHANGED <<sql, flagVars, configVars, loopVars, client, columns, allRows,
                   cellVars, dockerVars>>

NextEmit == Emit

SpecEmit == InitEmit /\ [][NextEmit]_vars

-----------------------------------------------------------------------------
(* The lifecycle of the embedded instance on its own: StartEmbeddedMindsDB *)
(* (with its readiness probe, one pass of the loop per step) and           *)
(* StopEmbeddedMindsDB, called one after the other                         *)

\* what docker may hold when the command starts: no container of the name,
\* a stopped one, a running one
InitialContainers ==
    { {}, { [id |-> ContainerID(1), running |-> FALSE] },
      { [id |-> ContainerID(1), running |-> TRUE] } }

InitEmbedded ==
    /\ pc = "embedded"
    /\ DefaultFlags
    /\ cellText = <<>>
    /\ cellWidth = 0
    /\ wrapped = <<>>
    /\ containers \in InitialContainers
    /\ nextID = 2
    /\ calls = 0
    /\ call = NoCall

\* StartEmbeddedMindsDB up to its return or to the start of the readiness
\* probe.  Each docker command may fail.
StartEmbeddedMindsDB ==
    /\ pc = "embedded"
    /\ calls < MaxStarts
    /\ calls' = calls + 1
    /\ \E psAll, ps, startOK, pullOK \in BOOLEAN, outcome \in RunOutcomes :
          LET containerID == findExistingContainer(psAll)
              running == containerID # NoID /\ isContainerRunning(containerID, ps)
              entered == [NoCall EXCEPT
                            !.found = containerID, !.running = running,
                            !.before = containers,
                            !.ops = IF containerID = NoID THEN <<"ps -a">>
                                    ELSE <<"ps -a", "ps">>]
              started == IF containerID = NoID THEN entered
                         ELSE [entered EXCEPT !.ops = Append(@, "start")]
              pulled  == [started EXCEPT !.ops = Append(@, "pull")]
              ran     == [pulled EXCEPT !.ops = Append(@, "run")]
          IN  IF alreadyRunning(containerID, running)
              THEN /\ call' = Return(entered, containerID, "")
                   /\ pc' = "embedded"
                   /\ UNCHANGED <<containers, nextID>>
              ELSE IF containerID # NoID /\ startOK
              THEN /\ containers' = startContainer(containerID)
                   /\ call' = [started EXCEPT !.id = containerID,
                                              !.probe = "waiting"]
                   /\ pc' = "wait"
                   /\ UNCHANGED nextID
              ELSE IF ~pullOK
              THEN /\ call' = Return(pulled, NoID, "failed to pull MindsDB image")
                   /\ pc' = "embedded"
                   /\ UNCHANGED <<containers, nextID>>
              ELSE /\ containers' = dockerRun(outcome)
                   /\ nextID' = IF containers' # containers THEN nextID + 1
                                ELSE nextID
                   /\ IF runSucceeds(outcome)
                      THEN /\ call' = [ran EXCEPT !.id = ContainerID(nextID),
                                                  !.probe = "waiting"]
                           /\ pc' = "wait"
                      ELSE /\ call' = Return(ran, NoID, "failed to create container")
                           /\ pc' = "embedded"
    /\ UNCHANGED <<sql, flagVars, configVars, loopVars, client, columns, allRows,
                   out, cellVars>>

\* waitForMindsDB, one pass of its loop: the condition, a connection attempt
\* (which can succeed only while a container runs), the sleep; the function
\* returns to StartEmbeddedMindsDB, which returns in turn (129-132, 162-166)
waitForMindsDB ==
    /\ pc = "wait"
    /\ LET i == Len(call.pings) + 1
       IN  IF budgetLeft(i)
           THEN \E pong \in BOOLEAN :
                   /\ pong => \E c \in containers : c.running
                   /\ IF pong
                      THEN /\ call' = Return([call EXCEPT !.pings = Append(@, TRUE),
                                                          !.probe = "ready"],
                                             call.id, "")
                           /\ pc' = "embedded"
                      ELSE /\ call' = [call EXCEPT !.pings = Append(@, FALSE)]
                           /\ pc' = "wait"
           ELSE /\ call' = Return([call EXCEPT !.probe = "timeout"], NoID,
                                  "MindsDB did not become ready")
                /\ pc' = "embedded"
    /\ UNCHANGED <<containers, nextID, calls>>
    /\ UNCHANGED <<sql, flagVars, configVars, loopVars, client, columns, allRows,
                   out, cellVars>>

\* StopEmbeddedMindsDB(remove)
StopEmbeddedMindsDB ==
    /\ pc = "embedded"
    /\ \E psAll, remove, stopOK, rmOK \in BOOLEAN :
          LET containerID == findExistingContainer(psAll)
          IN  IF containerID = NoID
              THEN /\ out' = Failure("MindsDB container not found", FALSE)
                   /\ UNCHANGED containers
              ELSE IF ~stopOK
              THEN /\ out' = Failure("failed to stop container", FALSE)
                   /\ UNCHANGED containers
              ELSE IF ~remove
              THEN /\ out' = Message("MindsDB container stopped successfully")
                   /\ containers' = stopContainer(containerID)
              ELSE IF ~rmOK
              THEN /\ out' = Failure("failed to remove container", FALSE)
                   /\ containers' = stopContainer(containerID)
              ELSE /\ out' = Message("MindsDB container stopped and removed")
                   /\ containers' = removeContainer(containerID)
    /\ call' = NoCall
    /\ UNCHANGED <<pc, nextID, calls>>
    /\ UNCHANGED <<sql, flagVars, configVars, loopVars, client, columns, allRows,
                   cellVars>>

NextEmbedded == StartEmbeddedMindsDB \/ waitForMindsDB \/ StopEmbeddedMindsDB

SpecEmbedded == InitEmbedded /\ [][NextEmbedded]_vars

\* the probe's loop runs on: nothing but the end of the process stops it
SpecEmbeddedFair == SpecEmbedded /\ WF_vars(waitForMindsDB)

-----------------------------------------------------------------------------
(* Properties *)

\* a query was handed to executeAndDisplayQuery in the last step
QueryIssued == out.kind \in {"result", "empty", "error"}

\* the output went through displayAsTable (flat or vertical)
TablePath == out.kind = "result" /\ out.layout \in {"table", "vertical"}

Positions(n) == [i \in 1..n |-> i]

\* the rows displayAsTable hands on after the row limit
LimitedRows ==
    IF queryLimit > 0 /\ Len(allRows) > queryLimit
    THEN SubSeq(allRows, 1, queryLimit) ELSE allRows

SetMax(S) == CHOOSE x \in S : \A y \in S : y <= x

\* the longest of a column's header and its cells
NaturalWidth(rows, i) ==
    SetMax({Len(columns[i])}
           \cup { Len(rows[r][i]) : r \in { q \in 1..Len(rows) : i <= Len(rows[q]) } })

RECURSIVE SumUpTo(_, _)
SumUpTo(f, n) == IF n = 0 THEN 0 ELSE f[n] + SumUpTo(f, n - 1)

\* C1: a query issued through a connected client is executed on its connection
\* (the answer is the server's rows or the server's or driver's error),
\* whichever of the two connection kinds the client holds.
C1_QueryRunsOnConnection ==
    QueryIssued => out.executed

\* C2: in the table path the rows displayed are exactly the first min(L, n)
\* rows in source order and the hint is printed iff n > L, when the limit L is
\* positive; with L = 0 all n rows are displayed and no hint is printed.
C2_TableShowsLimitedRows ==
    TablePath =>
        /\ queryLimit > 0 =>
              /\ out.shown = Positions(Min(queryLimit, Len(allRows)))
              /\ out.hint <=> Len(allRows) > queryLimit
        /\ queryLimit = 0 =>
              /\ out.shown = Positions(Len(allRows))
              /\ ~out.hint

\* C3: JSON and CSV output holds every row of the result, in source order,
\* whatever the row limit is.
C3_JsonCsvShowAllRows ==
    (out.kind = "result" /\ out.layout \in {"json", "csv"}) =>
        /\ out.shown = Positions(Len(allRows))
        /\ ~out.fault
        /\ ~out.hint

C3_Witness ==
    /\ out.kind = "result"
    /\ out.layout = "csv"
    /\ queryLimit > 0
    /\ Len(allRows) > queryLimit
    /\ out.shown = Positions(Len(allRows))

\* C4: `.format <v>` sets the format to v when v is one of table, json, csv;
\* for any other v (and for `.format` without a value) the format stays as it
\* was and an error is printed; no other setting changes and the session
\* goes on.
C4_FormatDirective ==
    [][ (pc = "prompt"
         /\ (HasPrefix(line', CmdFormat \o <<" ">>) \/ line' = CmdFormat))
        => LET v == TrimSpace(TrimPrefix(line', CmdFormat \o <<" ">>))
           IN  /\ pc' = "prompt"
               /\ UNCHANGED <<queryMaxWidth, queryCompact, queryVertical,
                              queryLimit, queryForceTable>>
               /\ IF line' # CmdFormat /\ v \in {FormatTable, FormatJSON, FormatCSV}
                  THEN queryFormat' = v /\ out'.msg = "Output format changed"
                  ELSE /\ queryFormat' = queryFormat
                       /\ out'.msg \in {"Invalid format", "Unknown command"} ]_vars

C4_Witness ==
    /\ pc = "prompt"
    /\ line = CmdFormat \o <<" ">> \o FormatXML
    /\ out.msg = "Invalid format"
    /\ queryFormat = FormatJSON

\* C5: the row limit is an integer >= 0 after any sequence of directives
\* (`.limit` rejects a negative argument).
C5_LimitNeverNegative ==
    queryLimit >= 0

\* C6: `.limit` without an argument reports the current row limit.
C6_BareLimitReportsLimit ==
    (pc = "prompt" /\ line = CmdLimit /\ out.kind = "message")
        => out.msg = "Current row limit"

\* C7: the vertical flag gives the vertical layout even with force-table
\* set; without it, force-table gives the flat table for every result.
C7_LayoutFlagsInOrder ==
    TablePath =>
        /\ queryVertical => out.layout = "vertical"
        /\ (~queryVertical /\ queryForceTable) => out.layout = "table"

C7_Witness ==
    /\ TablePath
    /\ ~queryVertical
    /\ queryForceTable
    /\ out.layout = "table"
    /\ Len(columns) >= VerticalColumnThreshold
    /\ \E r \in 1..Len(LimitedRows) : \E c \in 1..Len(LimitedRows[r]) :
          Len(LimitedRows[r][c]) > LongCellThreshold

\* the estimate of section 4.2: per column min(40, max(header, longest cell))
\* plus 3, summed
EstimateOf(rows) ==
    SumUpTo([i \in 1..Len(columns) |->
                Min(EstimateCap, NaturalWidth(rows, i)) + EstimatePadding],
            Len(columns))

C9_EightColumnsVertical ==
    (TablePath /\ ~queryVertical /\ ~queryForceTable
     /\ Len(columns) >= HelpTextColumnThreshold)
        => out.layout = "vertical"

\* C10 as stated: every width of the plan is >= 4 and <= the ceiling, in
\* both branches.
C10_WidthsBetweenFloorAndCeiling ==
    (TablePath /\ out.layout = "table") =>
        \A i \in 1..Len(out.colWidths) :
            out.colWidths[i] >= MinColumnWidth /\ out.colWidths[i] <= out.ceiling

\* C10 amended: every width is <= the ceiling; in the shrink branch it is
\* also >= 4, or equal to the ceiling when the ceiling is below 4; in the
\* fits branch it is the column's natural width capped at the ceiling.
C10_WidthsAmended ==
    (TablePath /\ out.layout = "table") =>
        /\ Len(out.colWidths) = Len(columns)
        /\ \A i \in 1..Len(out.colWidths) :
              /\ out.colWidths[i] <= out.ceiling
              /\ out.branch = "shrink" =>
                    out.colWidths[i] >= Min(MinColumnWidth, out.ceiling)
              /\ out.branch = "fits" =>
                    out.colWidths[i] = Min(out.ceiling, NaturalWidth(LimitedRows, i))

C10_Witness ==
    /\ TablePath /\ out.layout = "table"
    /\ out.branch = "shrink"
    /\ out.ceiling > MinColumnWidth
    /\ \E i \in 1..Len(out.colWidths) : out.colWidths[i] = MinColumnWidth
    /\ \E i \in 1..Len(out.colWidths) : out.colWidths[i] = out.ceiling

\* C11: whenever calculateColumnWidths takes the proportional-shrink branch,
\* the sum of the returned widths plus the separator overhead
\* ((columnCount-1)*3 + 4) is <= the available width.
C11_ShrinkFitsAvailable ==
    (TablePath /\ out.layout = "table" /\ out.branch = "shrink") =>
        SumUpTo(out.colWidths, Len(out.colWidths)) + (Len(columns) - 1) * 3 + 4
            <= out.available

\* C12: truncation is idempotent: truncateOrWrapText applied to its own
\* result, with the same width, returns that result unchanged.
C12_TruncationIdempotent ==
    Len(wrapped) >= 2 => wrapped[2] = wrapped[1]

C14_EmptyAndNullShowNULL ==
    TablePath =>
        \A r \in 1..Len(LimitedRows) : \A c \in 1..Len(columns) :
            LimitedRows[r][c] \in {<<>>, NullText} =>
                /\ r <= Len(out.cells)
                /\ out.cells[r][c] = NullText

\* A reader of RFC 4180 text: records end at a line break outside quotes (LF,
\* or CR LF), fields are separated by commas, a field in double quotes may
\* hold commas, line breaks and doubled quotes, a bare field holds no quote.
\* quoted tells whether every field read was written in quotes.
RECURSIVE ReadCSV(_, _, _, _, _, _, _)
ReadCSV(t, i, st, field, record, records, quoted) ==
    LET endField  == Append(record, field)
        endRecord == Append(records, Append(record, field))
    IN  IF i > Len(t)
        THEN IF st = "quoted" THEN [ok |-> FALSE, records |-> records, quoted |-> quoted]
             ELSE IF st = "start" /\ record = <<>>
                  THEN [ok |-> TRUE, records |-> records, quoted |-> quoted]
                  ELSE [ok |-> TRUE, records |-> endRecord,
                        quoted |-> quoted /\ st = "closed"]
        ELSE IF st = "quoted"
        THEN IF t[i] = Quote
             THEN ReadCSV(t, i + 1, "closed", field, record, records, quoted)
             ELSE ReadCSV(t, i + 1, "quoted", Append(field, t[i]), record, records,
                          quoted)
        ELSE IF st = "closed" /\ t[i] = Quote
        THEN ReadCSV(t, i + 1, "quoted", Append(field, Quote), record, records, quoted)
        ELSE IF st = "start" /\ t[i] = Quote
        THEN ReadCSV(t, i + 1, "quoted", field, record, records, quoted)
        ELSE IF t[i] = ","
        THEN ReadCSV(t, i + 1, "start", <<>>, endField, records,
                     quoted /\ st = "closed")
        ELSE IF t[i] = "\n"
        THEN ReadCSV(t, i + 1, "start", <<>>, <<>>, endRecord,
                     quoted /\ st = "closed")
        ELSE IF t[i] = "\r" /\ i < Len(t) /\ t[i + 1] = "\n"
        THEN ReadCSV(t, i + 1, st, field, record, records, quoted)
        ELSE IF st = "closed" \/ t[i] = Quote
        THEN [ok |-> FALSE, records |-> records, quoted |-> quoted]
        ELSE ReadCSV(t, i + 1, "bare", Append(field, t[i]), record, records, quoted)

ParseCSV(t) == ReadCSV(t, 1, "start", <<>>, <<>>, <<>>, TRUE)

\* C15: CSV emission round-trips: every header and every cell is written as a
\* double-quoted field with each embedded double quote doubled, the header
\* record comes first, and an RFC 4180 reader recovers every field value
\* unchanged.
C15_CsvRoundTrip ==
    (out.kind = "result" /\ out.layout = "csv") =>
        LET parsed == ParseCSV(out.text)
        IN  /\ parsed.ok
            /\ parsed.quoted
            /\ parsed.records = <<columns>> \o allRows

C15_Witness ==
    /\ out.kind = "result"
    /\ out.layout = "csv"
    /\ Len(columns) = 2
    /\ Len(allRows) = 2
    /\ allRows[1][1] = <<"h", Quote, "i", Quote>>
    /\ allRows[2][2] = <<",", "\n">>
    /\ ParseCSV(out.text).records[2][1] = <<"h", Quote, "i", Quote>>

\* the value a JSON token stands for when a backslash before a quote is an
\* escape: the token without its outer quotes and without those backslashes
Unescaped(tok) ==
    LET keep == Ascending({ i \in 2..(Len(tok) - 1) :
                              ~(tok[i] = "\\" /\ i + 1 < Len(tok)
                                /\ tok[i + 1] = Quote) })
    IN  [k \in 1..Len(keep) |-> tok[keep[k]]]

\* C16: JSON emission writes every cell value as a double-quoted string (never
\* a numeric or boolean literal) in which every embedded double quote of the
\* value is preceded by a backslash.
C16_JsonValuesQuoted ==
    (out.kind = "result" /\ out.layout = "json") =>
        /\ Len(out.cells) = Len(allRows)
        /\ \A r \in 1..Len(allRows) :
              /\ Len(out.cells[r]) = Len(columns)
              /\ \A c \in 1..Len(columns) :
                    LET tok == out.cells[r][c]
                    IN  /\ Len(tok) >= 2
                        /\ tok[1] = Quote
                        /\ tok[Len(tok)] = Quote
                        /\ \A i \in 2..(Len(tok) - 1) :
                              tok[i] = Quote => (i > 2 /\ tok[i - 1] = "\\")
                        /\ Unescaped(tok) = allRows[r][c]

C16_Witness ==
    /\ out.kind = "result"
    /\ out.layout = "json"
    /\ Len(allRows) = 2
    /\ Len(columns) = 2
    /\ allRows[1][1] = <<"1">>
    /\ out.cells[1][1] = <<Quote, "1", Quote>>
    /\ allRows[2][2] = <<"h", Quote, "i", Quote>>
    /\ out.cells[2][2] = <<Quote, "h", "\\", Quote, "i", "\\", Quote, Quote>>

\* a line of SQL ending in a semicolon is read in this step
TerminatedLineRead ==
    /\ pc = "prompt"
    /\ line' # <<>>
    /\ ~HasPrefix(line', <<".">>)
    /\ HasSuffix(line', <<";">>)

\* the single-space join of the lines accumulated since the last execution
\* and the line read in this step, without the trailing semicolon, trimmed
JoinedQuery ==
    TrimSpace(TrimSuffix(IF multiLineQuery = <<>> THEN line'
                         ELSE multiLineQuery \o <<" ">> \o line', <<";">>))

C18_EmptyLine ==
    [][ (pc = "prompt" /\ pc' = "prompt" /\ line' = <<>>) =>
            /\ UNCHANGED <<flagVars, configVars, client>>
            /\ IF multiLineQuery # <<>>
               THEN /\ out'.kind \in {"result", "empty", "error"}
                    /\ sql' = TrimSpace(multiLineQuery)
                    /\ multiLineQuery' = <<>>
                    /\ inMultiLine' = FALSE
               ELSE /\ out'.kind = "none"
                    /\ UNCHANGED <<multiLineQuery, inMultiLine>> ]_vars

C18_Witness ==
    /\ pc = "prompt"
    /\ line = <<>>
    /\ sql = <<"a", " ", "a">>
    /\ QueryIssued
    /\ multiLineQuery = <<>>
    /\ ~inMultiLine

\* the name of a directive: the line up to its first space
DirectiveName(l) ==
    IF Contains(l, " ")
    THEN Take(l, (CHOOSE i \in 1..Len(l) : l[i] = " " /\ ~Contains(Take(l, i - 1), " ")) - 1)
    ELSE l

KnownDirectives ==
    {CmdExit, CmdQuit, CmdHelp, CmdFormat, CmdCompact, CmdVertical, CmdLimit,
     CmdClear}

\* C19: an unrecognized `.`-prefixed directive prints an error and a hint,
\* does not end the session and leaves the presentation settings and the
\* accumulated buffer unchanged.
C19_UnknownDirective ==
    [][ (pc = "prompt" /\ HasPrefix(line', <<".">>)
         /\ DirectiveName(line') \notin KnownDirectives) =>
            /\ out'.kind = "message"
            /\ out'.msg = "Unknown command"
            /\ out'.hint
            /\ pc' = "prompt"
            /\ UNCHANGED <<flagVars, configVars, multiLineQuery, inMultiLine,
                           client>> ]_vars

C19_Witness ==
    /\ pc = "prompt"
    /\ line = CmdBogus
    /\ out.msg = "Unknown command"
    /\ out.hint
    /\ multiLineQuery = <<"a">>
    /\ inMultiLine
    /\ queryFormat = FormatCSV

\* C20: a query that fails in the interactive loop (query error, column
\* introspection error, row-scan error) is reported and does not end the
\* session: the loop is at a fresh prompt with an empty buffer, and a later
\* line can still be read and executed.
C20_FailedQueryKeepsSession ==
    (out.kind = "error") =>
        /\ out.msg # ""
        /\ pc = "prompt"
        /\ multiLineQuery = <<>>
        /\ ~inMultiLine
        /\ ENABLED (ReadSQLLine /\ out'.kind \in {"result", "empty", "error"})

C20_Witness ==
    /\ out.kind = "error"
    /\ out.msg = "scanErr"
    /\ pc = "prompt"
    /\ multiLineQuery = <<>>
    /\ ~inMultiLine

\* the presentation settings of the session
Settings ==
    <<queryFormat, queryMaxWidth, queryCompact, queryVertical, queryLimit,
      queryForceTable>>

SettingDirectives == {CmdFormat, CmdCompact, CmdVertical, CmdLimit}

\* C21: the presentation settings (format, max width, compact, vertical, row
\* limit, force-table) change only in a step that reads one of the directives
\* .format, .compact, .vertical, .limit: a step that executes a query
\* (answered with rows, with no result set or with an error, in any format),
\* reads .help, .clear, an unrecognized directive, or any other line leaves
\* all of them as they were.
C21_SettingsChangeOnlyByDirective ==
    [][ (Settings' # Settings) =>
            /\ pc = "prompt"
            /\ HasPrefix(line', <<".">>)
            /\ DirectiveName(line') \in SettingDirectives
            /\ ~QueryIssued' ]_vars

\* a query answered with rows under settings that earlier directives changed
C21_Witness ==
    /\ pc = "prompt"
    /\ queryFormat = FormatCSV
    /\ queryLimit = 2
    /\ queryCompact
    /\ QueryIssued
    /\ out.kind = "result"
    /\ out.layout = "csv"

\* C22: `.compact` and `.vertical` each negate their own flag, whatever its
\* value, and change no other setting, so that entering the same directive
\* twice brings back the settings it started from.
C22_TogglesFlipOwnFlag ==
    [][ /\ (pc = "prompt" /\ line' = CmdCompact) =>
              /\ queryCompact' = ~queryCompact
              /\ UNCHANGED <<queryFormat, queryMaxWidth, queryVertical,
                             queryLimit, queryForceTable>>
        /\ (pc = "prompt" /\ line' = CmdVertical) =>
              /\ queryVertical' = ~queryVertical
              /\ UNCHANGED <<queryFormat, queryMaxWidth, queryCompact,
                             queryLimit, queryForceTable>> ]_vars

\* the directive entered a second time: the flag is off again
C22_Witness ==
    /\ pc = "prompt"
    /\ line = CmdCompact
    /\ out.msg = "Compact mode disabled"
    /\ ~queryCompact
    /\ queryVertical

\* every connection attempt of the probe so far failed
AllFailed(pings) == \A i \in 1..Len(pings) : ~pings[i]

\* the readiness probe of the call: never more than maxAttempts attempts,
\* no attempt after a successful one, nil returned exactly on a successful
\* attempt, the timeout error exactly after maxAttempts failed attempts
ProbeWithinBudget ==
    /\ Len(call.pings) <= maxAttempts
    /\ AllFailed(SubSeq(call.pings, 1, Len(call.pings) - 1))
    /\ call.probe = "waiting" <=> pc = "wait"
    /\ call.probe = "waiting" => AllFailed(call.pings)
    /\ call.probe = "ready" <=>
          (call.pings # <<>> /\ call.pings[Len(call.pings)])
    /\ call.probe = "timeout" <=>
          (Len(call.pings) = maxAttempts /\ AllFailed(call.pings)
           /\ call.returned)
    /\ call.probe = "timeout" <=> call.err = "MindsDB did not become ready"

\* C23: the readiness probe always terminates; it makes at most 30
\* connection attempts, returns success at the first successful attempt
\* without a further attempt, and returns the "did not become ready" error
\* if and only if all 30 attempts failed.
C23_ProbeTerminates ==
    /\ []ProbeWithinBudget
    /\ (pc = "wait") ~> (pc = "embedded" /\ call.probe \in {"ready", "timeout"})

\* the probe gave up after its last attempt
C23_Witness ==
    /\ pc = "embedded"
    /\ call.returned
    /\ call.probe = "timeout"
    /\ Len(call.pings) = maxAttempts

\* the call found the container of the name running when it began
FoundRunning ==
    /\ call.found # NoID
    /\ call.running
    /\ \E c \in call.before : c.id = call.found /\ c.running

\* C24: a call of StartEmbeddedMindsDB that finds the container already
\* running runs no docker pull, run or start and returns the id of that
\* container without error, leaving docker as it was; at any point of any
\* number of successive calls at most one container of the name exists, and
\* after a call that returned an id that container is the one, and running.
C24_EnsureStartedIdempotent ==
    /\ Cardinality(containers) <= 1
    /\ (call.returned /\ FoundRunning) =>
          /\ call.ops = <<"ps -a", "ps">>
          /\ call.err = ""
          /\ call.id = call.found
          /\ containers = call.before
    /\ (call.returned /\ call.err = "") =>
          containers = { [id |-> call.id, running |-> TRUE] }

\* the third call in a row that found the container running
C24_Witness ==
    /\ calls = 3
    /\ call.returned
    /\ FoundRunning
    /\ call.id = ContainerID(1)
    /\ containers = { [id |-> ContainerID(1), running |-> TRUE] }

\* C25: StartEmbeddedMindsDB returns a container id without error only after
\* the readiness probe succeeded during that call, on each of its paths
\* (container already running, existing container started, new container
\* created).
C25_ProbePrecedesSuccess ==
    (call.returned /\ call.err = "") => call.probe = "ready"

\* C26: in the flat table layout, every data cell longer than the final
\* width of its column is displayed as truncateOrWrapText returns it for
\* that cell and that width (width <= 8: hard truncation; more than 200
\* characters: leading whole words and "..."; a space and width > 15: the
\* first word-wrapped line and "..."; otherwise the first width-3 characters
\* and "...").
C26_FlatCellsFollowTruncationRules ==
    (TablePath /\ out.layout = "table") =>
        \A r \in 1..Len(LimitedRows) : \A c \in 1..Len(columns) :
            LET cell == LimitedRows[r][c]
                w    == out.colWidths[c]
                t    == truncateOrWrapText(cell, w)
            IN  Len(cell) > w =>
                    /\ ~t.fault
                    /\ out.cells[r][c] = t.text

\* the first k words of a text, joined by single spaces
FirstWords(t, k) == Join(SubSeq(Fields(t), 1, k), <<" ">>)

\* how many leading whole words of a text fit within n characters
WordsWithin(t, n) ==
    SetMax({ k \in 0..Len(Fields(t)) : Len(FirstWords(t, k)) <= n })

\* C27: for a text of more than 200 characters that does not fit a width
\* above 8, truncateOrWrapText returns the leading whole words, as many as
\* leave room for the "..." that follows them; when not even the first word
\* fits within width-4 characters it returns the first width-3 characters
\* of the text followed by "...", whether or not the text holds a space.
C27_LongTextLeadingWords ==
    (Len(wrapped) >= 1 /\ Len(cellText) > LongTextThreshold
     /\ Len(cellText) > cellWidth /\ cellWidth > ShortWidth) =>
        wrapped[1] =
            IF Fields(cellText) # <<>>
               /\ Len(FirstWords(cellText, 1)) <= cellWidth - 4
            THEN Returned(FirstWords(cellText,
                                     WordsWithin(cellText, cellWidth - 3))
                          \o Ellipsis)
            ELSE Returned(Take(cellText, cellWidth - 3) \o Ellipsis)

\* C28: for every text and every width >= 0, truncateOrWrapText completes
\* without a slice-bounds fault and returns a string that is no longer than
\* the width and no longer than the text.
C28_TruncationSafeAndBounded ==
    (Len(wrapped) >= 1 /\ cellWidth >= 0) =>
        /\ ~wrapped[1].fault
        /\ Len(wrapped[1].text) <= cellWidth
        /\ Len(wrapped[1].text) <= Len(cellText)

\* C29: for every terminal width >= 1, every set of column names and every
\* row, displayWideTable completes without an index or slice-bounds fault,
\* also when terminalWidth - longestColumnName - 13 is negative.
C29_VerticalEmitterNeverFaults ==
    (out.kind = "result" /\ out.layout = "vertical" /\ out.termWidth >= 1) =>
        ~out.fault

\* at a prompt the flag tells whether the buffer holds text
FlagMatchesBuffer ==
    pc = "prompt" => (inMultiLine <=> multiLineQuery # <<>>)

\* C30: at every prompt of the interactive loop the multi-line flag is set
\* if and only if the accumulation buffer is not empty; right after a query
\* is executed the buffer is empty and the flag is cleared, and the text
\* executed is made of the buffer and the line just read only, so no text is
\* executed twice; a directive entered mid-entry leaves the buffer and the
\* flag unchanged.
C30_FlagTracksBuffer ==
    /\ []FlagMatchesBuffer
    /\ [][ /\ (pc = "prompt" /\ QueryIssued') =>
                /\ multiLineQuery' = <<>>
                /\ ~inMultiLine'
                /\ sql' = IF line' = <<>> THEN TrimSpace(multiLineQuery)
                          ELSE JoinedQuery
           /\ (pc = "prompt" /\ HasPrefix(line', <<".">>)) =>
                UNCHANGED <<multiLineQuery, inMultiLine>> ]_vars

\* a directive read while an entry of two lines is open
C30_Witness ==
    /\ pc = "prompt"
    /\ line = CmdHelp
    /\ out.msg = "help"
    /\ inMultiLine
    /\ multiLineQuery = <<"a", " ", "a">>

=============================================================================
